---------------------------- MODULE Spec2Model ----------------------------
(***************************************************************************)
(* Model of the streaming container (src/src/crypto/streaming.rs): the     *)
(* stream configuration, the chunk nonce derivation, the v2 stream header  *)
(* and, around them, the encoder and decoder protocols of the v2 format.   *)
(*                                                                         *)
(* TLC's integers are 32 bits wide, so a Rust integer wider than 31 bits   *)
(* is held as a little-endian sequence of 16-bit limbs: a u16 is one limb, *)
(* a u32 two, a u64 (and usize) four.  Bytes are the integers 0..255 and a *)
(* byte string is a sequence of bytes.                                     *)
(***************************************************************************)
EXTENDS Integers, Sequences, FiniteSets, TLC

VARIABLES
    call,      \* pure-function specifications: the function applied and its inputs
    ret,       \* pure-function specifications: what the call returned
    scen,      \* stream: the inputs of one encode/decode run
    enc,       \* stream: the encoder's state
    sink,      \* stream: the bytes the encoder has written
    source,    \* stream: the bytes the decoder reads
    dec,       \* stream: the decoder's state
    out,       \* stream: the plaintext the decoder has delivered
    vol,       \* volume: the VolumeHeader object and the clock reads behind it
    clock      \* volume: the system clock, in half seconds since the Unix epoch

vars == <<call, ret, scen, enc, sink, source, dec, out, vol, clock>>

(***************************************************************************)
(* Bounds of the exploration.                                              *)
(***************************************************************************)
\* plaintexts span up to MaxChunks full chunks plus one byte
MaxChunks == 2
\* chunk indices 0..MaxIndex are tried next to the byte-boundary indices
MaxIndex == 3
\* StreamConfig::new is tried on every size within Window of each limit
Window == 12
\* a written stream of at most MaxCutAll bytes is cut to every shorter length
MaxCutAll == 128
\* the volume clock runs up to MaxClock half seconds after the epoch
MaxClock == 4
\* a VolumeHeader is touched at most MaxTouches times
MaxTouches == 2

(***************************************************************************)
(* Fixed-width unsigned integers as little-endian 16-bit limbs.            *)
(***************************************************************************)
\* TLC builds [k \in 1..n |-> e] lazily; Seq1 makes it the plain sequence it denotes
Seq1(f) == SubSeq(f, 1, Len(f))

Limb == 256 * 256
HalfLimb == 128 * 256

\* the w-limb word of a small natural n (n < 2^31)
W(n, w) == Seq1([k \in 1..w |-> IF k = 1 THEN n % Limb
                           ELSE IF k = 2 THEN n \div Limb ELSE 0])

\* 2^e as a w-limb word (e < 16*w)
WPow2(e, w) == Seq1([k \in 1..w |-> IF k = (e \div 16) + 1 THEN 2 ^ (e % 16) ELSE 0])

WZero(w) == Seq1([k \in 1..w |-> 0])
WMax(w) == Seq1([k \in 1..w |-> Limb - 1])

\* zero-extension or truncation to w limbs (an `as` cast between unsigned types)
WCast(a, w) == Seq1([k \in 1..w |-> IF k <= Len(a) THEN a[k] ELSE 0])

\* the value of a word that fits 31 bits
WInt(a) == IF Len(a) = 0 THEN 0
           ELSE IF Len(a) = 1 THEN a[1] ELSE a[1] + Limb * a[2]
WFitsInt(a) == /\ \A k \in 3..Len(a) : a[k] = 0
               /\ (Len(a) >= 2 => a[2] < HalfLimb)

\* comparison of two words of the same width
WLess(a, b) == \E k \in 1..Len(a) : /\ a[k] < b[k]
                                    /\ \A m \in (k+1)..Len(a) : a[m] = b[m]
WLeq(a, b) == a = b \/ WLess(a, b)

\* carry into limb k of a + b + c0
RECURSIVE WCarry(_, _, _, _)
WCarry(a, b, c0, k) ==
    IF k = 1 THEN c0
    ELSE (a[k-1] + b[k-1] + WCarry(a, b, c0, k-1)) \div Limb

\* a + b in Len(a)+1 limbs: the last limb is the carry out
WAddC(a, b) == Seq1([k \in 1..(Len(a) + 1) |->
                   IF k <= Len(a) THEN (a[k] + b[k] + WCarry(a, b, 0, k)) % Limb
                   ELSE WCarry(a, b, 0, k)])
WAddWrap(a, b) == SubSeq(WAddC(a, b), 1, Len(a))
WAddOverflows(a, b) == WAddC(a, b)[Len(a) + 1] # 0

\* a - b modulo 2^(16*Len(a)), as a + ~b + 1
WSubWrap(a, b) == Seq1([k \in 1..Len(a) |->
                      (a[k] + (Limb - 1 - b[k])
                         + WCarry(a, [m \in 1..Len(a) |-> Limb - 1 - b[m]], 1, k)) % Limb])

\* 2*a + c in the same width (the top bit is dropped)
WShl1(a, c) == Seq1([k \in 1..Len(a) |->
                   ((2 * a[k]) % Limb) + (IF k = 1 THEN c ELSE a[k-1] \div HalfLimb)])

\* bit i (0 is the lowest) of a
WBit(a, i) == (a[(i \div 16) + 1] \div (2 ^ (i % 16))) % 2

\* binary long division, from bit i down: q and r are one limb wider than n.
\* (The tests on Len make TLC evaluate q and r at every step.)
RECURSIVE WDivStep(_, _, _, _, _)
WDivStep(n, d, i, q, r) ==
    IF i < 0 \/ Len(q) # Len(r) THEN [q |-> q, r |-> r]
    ELSE LET r2 == WShl1(r, WBit(n, i))
         IN  IF WLeq(d, r2)
             THEN WDivStep(n, d, i - 1, WShl1(q, 1), WSubWrap(r2, d))
             ELSE WDivStep(n, d, i - 1, WShl1(q, 0), r2)

\* n / d, truncating, for d # 0; the result has the width of n
WDiv(n, d) ==
    LET w == Len(n)
        res == WDivStep(n, WCast(d, w + 1), 16 * w - 1, WZero(w + 1), WZero(w + 1))
    IN  SubSeq(res.q, 1, w)

\* a * b, exact, in Len(a)+Len(b) limbs (shift and add over the bits of b)
RECURSIVE WMulStep(_, _, _, _)
WMulStep(a, b, i, acc) ==
    IF i < 0 \/ Len(acc) # Len(a) THEN acc
    ELSE LET sh == WShl1(acc, 0)
         IN  WMulStep(a, b, i - 1, IF WBit(b, i) = 1 THEN WAddWrap(sh, a) ELSE sh)
WMul(a, b) ==
    LET w == Len(a) + Len(b)
    IN  WMulStep(WCast(a, w), b, 16 * Len(b) - 1, WZero(w))

(***************************************************************************)
(* Bytes.                                                                  *)
(***************************************************************************)
Byte == 0..255

\* uN::to_le_bytes
to_le_bytes(a) == Seq1([k \in 1..(2 * Len(a)) |->
                      IF k % 2 = 1 THEN a[(k + 1) \div 2] % 256
                      ELSE a[k \div 2] \div 256])

\* uN::from_le_bytes
from_le_bytes(bs) == Seq1([k \in 1..(Len(bs) \div 2) |-> bs[2*k - 1] + 256 * bs[2*k]])

\* the ^ of two bytes
RECURSIVE Xor(_, _)
Xor(a, b) == IF a = 0 THEN b
             ELSE IF b = 0 THEN a
             ELSE ((a + b) % 2) + 2 * Xor(a \div 2, b \div 2)

\* n copies of byte b
Rep(b, n) == Seq1([k \in 1..n |-> b])

\* bytes a[from..to), 0-based as the source counts them
Slice(a, from, to) == SubSeq(a, from + 1, to)


(***************************************************************************)
(* Results: Ok(val) and Err(err).  An error is named by its CryptorError   *)
(* variant; a failed read_exact surfaces as the Io variant.                *)
(***************************************************************************)
Ok(v) == [ok |-> TRUE, err |-> "none", val |-> v]
Err(e, v) == [ok |-> FALSE, err |-> e, val |-> v]

(***************************************************************************)
(* Constants of streaming.rs.                                              *)
(***************************************************************************)
NONCE_LEN == 12
DEFAULT_CHUNK_SIZE == 1024 * 1024
MIN_CHUNK_SIZE == 4 * 1024
MAX_CHUNK_SIZE == 16 * 1024 * 1024
\* b"SCRYPTv2"
MAGIC_BYTES_V2 == <<83, 67, 82, 89, 80, 84, 118, 50>>
FORMAT_VERSION == 2

(***************************************************************************)
(* StreamConfig.  chunk_size is a usize: a four-limb word.                 *)
(***************************************************************************)
NoConfig == [chunk_size |-> WZero(4), compress |-> FALSE]

\* the variant with the lower limit excluded
StreamConfig_new_excl(chunk_size) ==
    IF WLeq(chunk_size, W(MIN_CHUNK_SIZE, 4)) \/ WLess(W(MAX_CHUNK_SIZE, 4), chunk_size)
    THEN Err("Cryptography", NoConfig)
    ELSE Ok([chunk_size |-> chunk_size, compress |-> FALSE])

StreamConfig_new(chunk_size) ==
    IF WLess(chunk_size, W(MIN_CHUNK_SIZE, 4)) \/ WLess(W(MAX_CHUNK_SIZE, 4), chunk_size)
    THEN Err("Cryptography", NoConfig)
    ELSE Ok([chunk_size |-> chunk_size, compress |-> FALSE])

(***************************************************************************)
(* derive_chunk_nonce.  base_nonce is 12 bytes, chunk_index a u64.         *)
(***************************************************************************)
\* the variant its doc comment describes: the counter's first four bytes
\* XORed into bytes 8..12
derive_chunk_nonce_doc(base_nonce, chunk_index) ==
    LET counter_bytes == to_le_bytes(chunk_index)
    IN  Seq1([k \in 1..NONCE_LEN |->
                IF k >= 9 THEN Xor(base_nonce[k], counter_bytes[k - 8])
                ELSE base_nonce[k]])

\* the variant that XORs the counter in big-endian order
derive_chunk_nonce_be(base_nonce, chunk_index) ==
    LET counter_bytes == to_le_bytes(chunk_index)
    IN  Seq1([k \in 1..NONCE_LEN |->
                IF k >= 5 THEN Xor(base_nonce[k], counter_bytes[13 - k])
                ELSE base_nonce[k]])

derive_chunk_nonce(base_nonce, chunk_index) ==
    LET counter_bytes == to_le_bytes(chunk_index)
    IN  Seq1([k \in 1..NONCE_LEN |->
                IF k >= 5 THEN Xor(base_nonce[k], counter_bytes[k - 4])
                ELSE base_nonce[k]])

(***************************************************************************)
(* StreamHeader::calculate_chunks.  file_size is a u64, chunk_size a u32.  *)
(* The outcome depends on the build: with overflow checks an overflowing   *)
(* + or - panics, without them it wraps; a division by zero always panics. *)
(***************************************************************************)
Returned(v) == [panic |-> FALSE, val |-> v]
Panicked == [panic |-> TRUE, val |-> WZero(4)]

\* the variant that rounds down
calculate_chunks_floor(file_size, chunk_size, overflow_checks) ==
    LET cs == WCast(chunk_size, 4)
    IN  IF cs = WZero(4) THEN Panicked ELSE Returned(WDiv(file_size, cs))

calculate_chunks(file_size, chunk_size, overflow_checks) ==
    LET cs == WCast(chunk_size, 4)
        sum == WAddWrap(file_size, cs)
        overflow == WAddOverflows(file_size, cs) \/ sum = WZero(4)
    IN  IF overflow /\ overflow_checks THEN Panicked
        ELSE IF cs = WZero(4) THEN Panicked
        ELSE Returned(WDiv(WSubWrap(sum, W(1, 4)), cs))

(***************************************************************************)
(* String::from_utf8: whether a byte string is well-formed UTF-8.          *)
(***************************************************************************)
IsCont(b) == 128 <= b /\ b <= 191
\* the length of the sequence a lead byte opens; 0 for a byte that opens none
LeadLen(b) == IF b < 128 THEN 1
              ELSE IF 194 <= b /\ b <= 223 THEN 2
              ELSE IF 224 <= b /\ b <= 239 THEN 3
              ELSE IF 240 <= b /\ b <= 244 THEN 4
              ELSE 0
\* the range of the byte after lead byte b
SecondOk(b, c) == IF b = 224 THEN 160 <= c /\ c <= 191
                  ELSE IF b = 237 THEN 128 <= c /\ c <= 159
                  ELSE IF b = 240 THEN 144 <= c /\ c <= 191
                  ELSE IF b = 244 THEN 128 <= c /\ c <= 143
                  ELSE IsCont(c)
from_utf8_ok(s) ==
    \A i \in 1..Len(s) :
        IF s[i] < 128 THEN TRUE
        ELSE IF IsCont(s[i])
        THEN \E j \in 1..3 :
                /\ i - j >= 1
                /\ LeadLen(s[i - j]) >= j + 1
                /\ \A m \in (i - j + 1)..(i - 1) : IsCont(s[m])
        ELSE /\ LeadLen(s[i]) >= 2
             /\ i + LeadLen(s[i]) - 1 <= Len(s)
             /\ SecondOk(s[i], s[i + 1])
             /\ \A m \in (i + 2)..(i + LeadLen(s[i]) - 1) : IsCont(s[m])

(***************************************************************************)
(* StreamHeader.  salt is a String (its UTF-8 bytes), base_nonce 12 bytes, *)
(* chunk_size a u32, total_chunks and original_size u64, metadata an       *)
(* Option<String>: None is [some |-> FALSE, s |-> <<>>].                   *)
(***************************************************************************)
None == [some |-> FALSE, s |-> <<>>]
Some(str) == [some |-> TRUE, s |-> str]

NoHeader == [salt |-> <<>>, base_nonce |-> Rep(0, NONCE_LEN), chunk_size |-> WZero(2),
             total_chunks |-> WZero(4), original_size |-> WZero(4), metadata |-> None]

\* uN::to_be_bytes
to_be_bytes(a) == Seq1([k \in 1..(2 * Len(a)) |-> to_le_bytes(a)[2 * Len(a) + 1 - k]])

\* the variant that writes the two length prefixes big-endian
StreamHeader_write_to_be(h) ==
    LET metadata_bytes == IF h.metadata.some THEN h.metadata.s ELSE <<>>
    IN  MAGIC_BYTES_V2 \o <<FORMAT_VERSION>> \o to_le_bytes(W(0, 2))
          \o to_be_bytes(W(Len(h.salt) % Limb, 1)) \o h.salt
          \o h.base_nonce \o to_le_bytes(h.chunk_size)
          \o to_le_bytes(h.total_chunks) \o to_le_bytes(h.original_size)
          \o to_be_bytes(W(Len(metadata_bytes) % Limb, 1)) \o metadata_bytes

\* StreamHeader::write_to into an empty Vec: the bytes written.  The two
\* length prefixes are `len() as u16`: the length modulo 2^16.
StreamHeader_write_to(h) ==
    LET salt_bytes == h.salt
        salt_len == W(Len(salt_bytes) % Limb, 1)
        metadata_bytes == IF h.metadata.some THEN h.metadata.s ELSE <<>>
        metadata_len == W(Len(metadata_bytes) % Limb, 1)
    IN  MAGIC_BYTES_V2
          \o <<FORMAT_VERSION>>
          \o to_le_bytes(W(0, 2))
          \o to_le_bytes(salt_len) \o salt_bytes
          \o h.base_nonce
          \o to_le_bytes(h.chunk_size)
          \o to_le_bytes(h.total_chunks)
          \o to_le_bytes(h.original_size)
          \o to_le_bytes(metadata_len) \o metadata_bytes

\* The result of read_from also tells how many bytes the reader gave up.
HeaderOk(h, n) == [ok |-> TRUE, err |-> "none", val |-> h, used |-> n]
HeaderErr(e) == [ok |-> FALSE, err |-> e, val |-> NoHeader, used |-> 0]

\* read_from's tail with the metadata kept as Some("") when its length is 0
ReadMetadata_some(r, p0, salt, base_nonce, chunk_size, total_chunks, original_size) ==
    IF Len(r) < p0 + 2 THEN HeaderErr("Io")
    ELSE
    LET metadata_len == WInt(from_le_bytes(Slice(r, p0, p0 + 2)))
        p1 == p0 + 2
    IN  IF Len(r) < p1 + metadata_len THEN HeaderErr("Io")
        ELSE IF ~from_utf8_ok(Slice(r, p1, p1 + metadata_len)) THEN HeaderErr("InvalidFormat")
        ELSE HeaderOk([salt |-> salt, base_nonce |-> base_nonce, chunk_size |-> chunk_size,
                       total_chunks |-> total_chunks, original_size |-> original_size,
                       metadata |-> Some(Slice(r, p1, p1 + metadata_len))],
                      p1 + metadata_len)

\* the tail of read_from, from the metadata length on; p0 bytes are read already
ReadMetadata(r, p0, salt, base_nonce, chunk_size, total_chunks, original_size) ==
    IF Len(r) < p0 + 2 THEN HeaderErr("Io")
    ELSE
    LET metadata_len == WInt(from_le_bytes(Slice(r, p0, p0 + 2)))
        p1 == p0 + 2
        hdr(md) == [salt |-> salt, base_nonce |-> base_nonce, chunk_size |-> chunk_size,
                    total_chunks |-> total_chunks, original_size |-> original_size,
                    metadata |-> md]
    IN  IF metadata_len > 0
        THEN IF Len(r) < p1 + metadata_len THEN HeaderErr("Io")
             ELSE IF ~from_utf8_ok(Slice(r, p1, p1 + metadata_len))
                  THEN HeaderErr("InvalidFormat")
             ELSE HeaderOk(hdr(Some(Slice(r, p1, p1 + metadata_len))), p1 + metadata_len)
        ELSE HeaderOk(hdr(None), p1)

\* read_from after the salt: base nonce, chunk size, total chunks, original size
ReadFixed(r, p0, salt) ==
    IF Len(r) < p0 + NONCE_LEN THEN HeaderErr("Io")
    ELSE IF Len(r) < p0 + NONCE_LEN + 4 THEN HeaderErr("Io")
    ELSE IF Len(r) < p0 + NONCE_LEN + 12 THEN HeaderErr("Io")
    ELSE IF Len(r) < p0 + NONCE_LEN + 20 THEN HeaderErr("Io")
    ELSE LET p1 == p0 + NONCE_LEN
         IN  ReadMetadata(r, p1 + 20, salt,
                          Slice(r, p0, p1),
                          from_le_bytes(Slice(r, p1, p1 + 4)),
                          from_le_bytes(Slice(r, p1 + 4, p1 + 12)),
                          from_le_bytes(Slice(r, p1 + 12, p1 + 20)))

\* StreamHeader::read_from on a reader holding the bytes r
StreamHeader_read_from(r) ==
    IF Len(r) < 8 THEN HeaderErr("Io")
    ELSE IF Slice(r, 0, 8) # MAGIC_BYTES_V2 THEN HeaderErr("InvalidFormat")
    ELSE IF Len(r) < 9 THEN HeaderErr("Io")
    ELSE IF r[9] # FORMAT_VERSION THEN HeaderErr("InvalidFormat")
    ELSE IF Len(r) < 13 THEN HeaderErr("Io")
    ELSE IF Len(r) < 15 THEN HeaderErr("Io")
    ELSE LET salt_len == WInt(from_le_bytes(Slice(r, 13, 15)))
         IN  IF Len(r) < 15 + salt_len THEN HeaderErr("Io")
             ELSE IF ~from_utf8_ok(Slice(r, 15, 15 + salt_len))
                  THEN HeaderErr("InvalidFormat")
             ELSE ReadFixed(r, 15 + salt_len, Slice(r, 15, 15 + salt_len))

(***************************************************************************)
(* The pure functions, each applied to inputs drawn from a bounded set.    *)
(* call holds the inputs; ret is <<>> before the call and <<result>> after.*)
(***************************************************************************)
VolumeIdle == vol = <<>> /\ clock = 0
VolumeUnchanged == UNCHANGED <<vol, clock>>
StreamIdle == /\ scen = <<>> /\ enc = <<>> /\ source = <<>> /\ dec = <<>> /\ out = <<>>
              /\ VolumeIdle
StreamUnchanged == UNCHANGED <<scen, enc, source, dec, out>> /\ VolumeUnchanged

\* ---- StreamConfig::new ----
ConfigSizes ==
    {W(n, 4) : n \in {0, 1, 1024, DEFAULT_CHUNK_SIZE, 20 * 1024 * 1024}}
      \cup {W(n, 4) : n \in (MIN_CHUNK_SIZE - Window)..(MIN_CHUNK_SIZE + Window)}
      \cup {W(n, 4) : n \in (MAX_CHUNK_SIZE - Window)..(MAX_CHUNK_SIZE + Window)}
      \cup {WPow2(32, 4), WAddWrap(WPow2(32, 4), W(MIN_CHUNK_SIZE, 4)),
            WAddWrap(WPow2(48, 4), W(DEFAULT_CHUNK_SIZE, 4)), WMax(4)}

InitConfig == /\ call \in {[fn |-> "StreamConfig::new", chunk_size |-> c] : c \in ConfigSizes}
              /\ ret = <<>> /\ sink = <<>> /\ StreamIdle

CallConfigNew == /\ call.fn = "StreamConfig::new" /\ ret = <<>>
                 /\ ret' = <<StreamConfig_new(call.chunk_size)>>
                 /\ UNCHANGED <<call, sink>> /\ StreamUnchanged

SpecConfig == InitConfig /\ [][CallConfigNew]_vars

\* ---- StreamHeader::calculate_chunks ----
FileSizes ==
    {W(n, 4) : n \in {0, 1, 1023, 1024, 1025, 2048, 2049, 4096, 4097, 100 * 1024 * 1024}}
      \cup {WSubWrap(WPow2(32, 4), W(1, 4)), WPow2(32, 4), WPow2(63, 4),
            WSubWrap(WZero(4), W(MIN_CHUNK_SIZE, 4)),
            WSubWrap(WZero(4), W(MIN_CHUNK_SIZE - 1, 4)),
            WSubWrap(WZero(4), W(2, 4)), WMax(4)}
ChunkSizes == {W(n, 2) : n \in {0, 1, 2, 1024, MIN_CHUNK_SIZE, DEFAULT_CHUNK_SIZE, MAX_CHUNK_SIZE}}
                \cup {WMax(2)}

InitChunks == /\ call \in {[fn |-> "calculate_chunks", file_size |-> n, chunk_size |-> c,
                            overflow_checks |-> oc] :
                              n \in FileSizes, c \in ChunkSizes, oc \in BOOLEAN}
              /\ ret = <<>> /\ sink = <<>> /\ StreamIdle

CallCalculateChunks ==
    /\ call.fn = "calculate_chunks" /\ ret = <<>>
    /\ ret' = <<calculate_chunks(call.file_size, call.chunk_size, call.overflow_checks)>>
    /\ UNCHANGED <<call, sink>> /\ StreamUnchanged

SpecChunks == InitChunks /\ [][CallCalculateChunks]_vars

\* ---- derive_chunk_nonce ----
BaseNonces == {Rep(1, NONCE_LEN), Rep(42, NONCE_LEN), Rep(255, NONCE_LEN),
               Seq1([k \in 1..NONCE_LEN |-> 16 * k + k])}
Indices == {W(n, 4) : n \in 0..MaxIndex}
             \cup {W(255, 4), W(256, 4), WPow2(16, 4), WPow2(24, 4),
                   WSubWrap(WPow2(32, 4), W(1, 4)), WPow2(32, 4),
                   WAddWrap(WPow2(32, 4), W(1, 4)), WPow2(40, 4), WPow2(48, 4),
                   WPow2(56, 4), WPow2(63, 4), WMax(4)}

InitNonce == /\ call \in {[fn |-> "derive_chunk_nonce", base_nonce |-> bn, i |-> i, j |-> j] :
                            bn \in BaseNonces, i \in Indices, j \in Indices}
             /\ ret = <<>> /\ sink = <<>> /\ StreamIdle

\* the nonces of chunks i and j of one file
CallDeriveNonce ==
    /\ call.fn = "derive_chunk_nonce" /\ ret = <<>>
    /\ ret' = <<[ni |-> derive_chunk_nonce(call.base_nonce, call.i),
                 nj |-> derive_chunk_nonce(call.base_nonce, call.j)]>>
    /\ UNCHANGED <<call, sink>> /\ StreamUnchanged

SpecNonce == InitNonce /\ [][CallDeriveNonce]_vars

\* ---- StreamHeader::write_to, then StreamHeader::read_from ----
\* "", "a", "test_salt_string", U+00E9
SmallSalts == {<<>>, <<97>>,
               <<116, 101, 115, 116, 95, 115, 97, 108, 116, 95, 115, 116, 114, 105, 110, 103>>,
               <<195, 169>>}
\* None, Some(""), Some("{\"compressed\":true}"), Some(U+00E9)
SmallMetadata == {None, Some(<<>>),
                  Some(<<123, 34, 99, 111, 109, 112, 114, 101, 115, 115, 101, 100, 34, 58,
                         116, 114, 117, 101, 125>>),
                  Some(<<195, 169>>)}
SmallHeaders ==
    {[salt |-> sa, base_nonce |-> bn, chunk_size |-> cs, total_chunks |-> tc,
      original_size |-> os, metadata |-> md] :
        sa \in SmallSalts, bn \in {Rep(42, NONCE_LEN), Seq1([k \in 1..NONCE_LEN |-> 16 * k + k])},
        cs \in {W(0, 2), W(DEFAULT_CHUNK_SIZE, 2), WMax(2)},
        tc \in {W(0, 4), W(100, 4), WMax(4)},
        os \in {W(100 * 1024 * 1024, 4), WPow2(63, 4)},
        md \in SmallMetadata}
\* strings whose length is the last that fits the u16 prefix, and the first that does not
LongHeaders ==
    {[salt |-> Rep(97, n), base_nonce |-> Rep(42, NONCE_LEN), chunk_size |-> W(MIN_CHUNK_SIZE, 2),
      total_chunks |-> W(1, 4), original_size |-> W(1, 4), metadata |-> None] :
        n \in {Limb - 1, Limb}}
      \cup
    {[salt |-> <<97>>, base_nonce |-> Rep(42, NONCE_LEN), chunk_size |-> W(MIN_CHUNK_SIZE, 2),
      total_chunks |-> W(1, 4), original_size |-> W(1, 4), metadata |-> Some(Rep(123, n))] :
        n \in {Limb - 1, Limb}}

InitHeader == /\ call \in {[fn |-> "StreamHeader::write_to", h |-> h] :
                             h \in SmallHeaders \cup LongHeaders}
              /\ ret = <<>> /\ sink = <<>> /\ StreamIdle

CallWriteTo == /\ call.fn = "StreamHeader::write_to"
               /\ sink' = StreamHeader_write_to(call.h)
               /\ call' = [call EXCEPT !.fn = "StreamHeader::read_from"]
               /\ UNCHANGED ret /\ StreamUnchanged

CallReadFrom == /\ call.fn = "StreamHeader::read_from" /\ ret = <<>>
                /\ ret' = <<StreamHeader_read_from(sink)>>
                /\ UNCHANGED <<call, sink>> /\ StreamUnchanged

NextHeader == CallWriteTo \/ CallReadFrom
SpecHeader == InitHeader /\ [][NextHeader]_vars

(***************************************************************************)
(* Properties of the pure functions.                                       *)
(***************************************************************************)
Called == ret # <<>>

\* C2: for one base nonce, two different chunk indices never derive the same
\* nonce.
C2_NonceUniqueness ==
    (Called /\ call.i # call.j) => ret[1].ni # ret[1].nj

\* indices that agree in their low 32 bits
C2_Witness ==
    /\ Called /\ call.i = W(0, 4) /\ call.j = WPow2(32, 4)
    /\ ret[1].ni # ret[1].nj

\* whether a header survives the two u16 length prefixes: no string longer
\* than 65535 bytes, and no metadata that is present but empty
FitsFormat(h) ==
    /\ Len(h.salt) <= 65535
    /\ h.metadata.some => (1 <= Len(h.metadata.s) /\ Len(h.metadata.s) <= 65535)

ValidUtf8(h) == from_utf8_ok(h.salt) /\ (h.metadata.some => from_utf8_ok(h.metadata.s))

\* C8 as stated: read_from returns every header write_to wrote, equal in every
\* field, whatever the length of the salt and the content of the metadata.
C8_HeaderRoundTripAny ==
    (Called /\ ValidUtf8(call.h)) => (ret[1].ok /\ ret[1].val = call.h)

\* C8, amended: read_from returns the header write_to wrote, equal in every
\* field, when the salt is at most 65535 bytes long and the metadata is absent
\* or between 1 and 65535 bytes long; it then reads exactly the bytes written.
C8_HeaderRoundTrip ==
    (Called /\ ValidUtf8(call.h) /\ FitsFormat(call.h))
        => (ret[1].ok /\ ret[1].val = call.h /\ ret[1].used = Len(sink))

\* the header of the round-trip test of streaming.rs
C8_Witness ==
    /\ Called /\ ret[1].ok /\ ret[1].val = call.h
    /\ Len(call.h.salt) = 16 /\ call.h.metadata.some /\ Len(call.h.metadata.s) = 19
    /\ call.h.chunk_size = W(1024 * 1024, 2) /\ call.h.total_chunks = W(100, 4)

\* q = ceil(n / c), stated by multiplication: q*c >= n and (q-1)*c < n
IsCeilDiv(q, n, c) ==
    /\ WLeq(WCast(n, 6), WMul(q, c))
    /\ q = WZero(4) \/ WLess(WMul(WSubWrap(q, W(1, 4)), c), WCast(n, 6))

\* C9: calculate_chunks returns ceil(file_size / chunk_size) for every u64
\* file_size and every u32 chunk_size > 0.
C9_CalculateChunksIsCeil ==
    (Called /\ call.chunk_size # WZero(2))
        => (~ret[1].panic /\ IsCeilDiv(ret[1].val, call.file_size, call.chunk_size))

\* what holds of calculate_chunks in every build: the result is the ceiling
\* whenever file_size + chunk_size fits 64 bits
CalculateChunksInRange ==
    (Called /\ call.chunk_size # WZero(2)
       /\ WLeq(call.file_size, WSubWrap(WMax(4), WCast(call.chunk_size, 4))))
        => (~ret[1].panic /\ IsCeilDiv(ret[1].val, call.file_size, call.chunk_size))

\* C10: StreamConfig::new(c) is Ok exactly for 4096 <= c <= 16777216, with
\* chunk_size = c and compress = false; any other c is a Cryptography error.
C10_ConfigBounds ==
    Called =>
        LET c == call.chunk_size
            inside == ~WLess(c, W(4096, 4)) /\ ~WLess(W(16777216, 4), c)
        IN  /\ ret[1].ok <=> inside
            /\ ret[1].ok => (ret[1].val.chunk_size = c /\ ret[1].val.compress = FALSE)
            /\ ~ret[1].ok => (ret[1].err = "Cryptography" /\ ret[1].val = NoConfig)

\* both limits are accepted and their outer neighbours refused
C10_Witness ==
    /\ Called
    /\ \/ call.chunk_size = W(4096, 4) /\ ret[1].ok
       \/ call.chunk_size = W(16777216, 4) /\ ret[1].ok
    /\ StreamConfig_new(W(4095, 4)).err = "Cryptography"
    /\ StreamConfig_new(W(16777217, 4)).err = "Cryptography"

(***************************************************************************)
(* The primitive contracts the stream protocols compose: the password      *)
(* KDF and the AEAD.  Their code is outside the files modelled here, so    *)
(* they are idealised: the KDF is a deterministic map to a 32-byte key,    *)
(* and the AEAD appends a TAG_LEN-byte tag that binds key, nonce and       *)
(* ciphertext, so that decrypt succeeds only on what encrypt produced.     *)
(***************************************************************************)
TAG_LEN == 16
KEY_LEN == 32
MacMod == 16777259

\* sum over lo..hi of k * (s[k] + 1), modulo MacMod, by halving
RECURSIVE WeightedSum(_, _, _)
WeightedSum(s, lo, hi) ==
    IF lo > hi THEN 0
    ELSE IF lo = hi THEN (lo * (s[lo] + 1)) % MacMod
    ELSE LET mid == (lo + hi) \div 2
         IN  (WeightedSum(s, lo, mid) + WeightedSum(s, mid + 1, hi)) % MacMod

\* KeyDerivation::derive_key(password, salt) under the cost parameters
derive_key(password, salt, cost) ==
    LET kn == (257 * WeightedSum(password, 1, Len(password))
                 + WeightedSum(salt, 1, Len(salt))
                 + 4099 * cost.time_cost + cost.memory_cost) % (256 * Limb)
    IN  Seq1([k \in 1..KEY_LEN |-> IF k = 1 THEN kn % 256
                                   ELSE IF k = 2 THEN (kn \div 256) % 256
                                   ELSE IF k = 3 THEN kn \div Limb
                                   ELSE 0])

\* a key as a number: derive_key leaves the bytes after the third zero
KeyNum(key) == key[1] + 256 * key[2] + Limb * key[3]

\* the tag of a ciphertext under key and nonce
Tag(key, nonce, ct) ==
    LET m == (KeyNum(key) + 8191 * WeightedSum(nonce, 1, Len(nonce))
                + WeightedSum(ct, 1, Len(ct))) % MacMod
    IN  Seq1([k \in 1..TAG_LEN |-> IF k = 1 THEN m % 256
                                   ELSE IF k = 2 THEN (m \div 256) % 256
                                   ELSE IF k = 3 THEN (m \div Limb) % 256
                                   ELSE IF k = 4 THEN m \div (256 * Limb)
                                   ELSE (k * 16 + Len(ct)) % 256])

\* the key stream byte at position k, from the stream's base byte
KeyStreamBase(key, nonce) == (KeyNum(key) + WeightedSum(nonce, 1, Len(nonce))) % 256
KeyStream(base, k) == (base + 31 * k) % 256

\* Encryptor::encrypt: the ciphertext followed by its tag
encrypt(key, nonce, plaintext) ==
    LET base == KeyStreamBase(key, nonce)
        ct == Seq1([k \in 1..Len(plaintext) |-> (plaintext[k] + KeyStream(base, k)) % 256])
    IN  ct \o Tag(key, nonce, ct)

\* Encryptor::decrypt: the plaintext, or a Cryptography error when the
\* payload is shorter than a tag or the tag does not verify
decrypt(key, nonce, payload) ==
    IF Len(payload) < TAG_LEN THEN Err("Cryptography", <<>>)
    ELSE LET n == Len(payload) - TAG_LEN
             ct == SubSeq(payload, 1, n)
             base == KeyStreamBase(key, nonce)
         IN  IF SubSeq(payload, n + 1, Len(payload)) # Tag(key, nonce, ct)
             THEN Err("Cryptography", <<>>)
             ELSE Ok(Seq1([k \in 1..n |-> (ct[k] + 256 - KeyStream(base, k)) % 256]))

(***************************************************************************)
(* The streaming encoder and decoder of the v2 format.  streaming.rs holds *)
(* the header, the nonce derivation and the chunk arithmetic; the two      *)
(* protocols around them follow spec.md sections 4.2 and 4.3.  Compression *)
(* (an unspecified codec) is left out: every StreamConfig here has         *)
(* compress = false.                                                       *)
(***************************************************************************)
\* "alpha", "beta"
Passwords == {<<97, 108, 112, 104, 97>>, <<98, 101, 116, 97>>}
\* what the KDF's generate_salt may return: "c2FsdA", "c2FsdB"
Salts == {<<99, 50, 70, 115, 100, 65>>, <<99, 50, 70, 115, 100, 66>>}
\* what the CSPRNG may return for the base nonce
StreamNonces == {Rep(42, NONCE_LEN), Seq1([k \in 1..NONCE_LEN |-> 16 * k + k])}
\* EncryptConfig::fast()
Cost == [memory_cost |-> 8192, time_cost |-> 1]
\* None, Some("{\"a\":1}")
StreamMetadata == {None, Some(<<123, 34, 97, 34, 58, 49, 125>>)}

\* a plaintext of n bytes
Plain(n) == Seq1([k \in 1..n |-> (k * k + 3 * k + 170) % 256])

\* the plaintext lengths tried with chunk size cs: empty, one byte, and up to
\* MaxChunks full chunks with and without one byte more
PlainLens(cs) == {0, 1} \cup {k * cs : k \in 1..MaxChunks} \cup {k * cs + 1 : k \in 1..MaxChunks}

NoTamper == [kind |-> "none", a |-> 0, b |-> 0]

\* the inputs of a run, the two random draws of the encoder among them.
\* Short plaintexts are tried with every draw and both metadata; long ones
\* with one draw, and with other chunk sizes (the two limits' neighbours).
Scenarios ==
    {[password |-> <<97, 108, 112, 104, 97>>, dec_password |-> dpw,
      config |-> [chunk_size |-> W(MIN_CHUNK_SIZE, 4), compress |-> FALSE],
      plaintext |-> Plain(n), metadata |-> md, cost |-> Cost,
      rng |-> [salt |-> sa, base_nonce |-> bn], tamper |-> NoTamper] :
        dpw \in Passwords, n \in {0, 1}, md \in StreamMetadata,
        sa \in Salts, bn \in StreamNonces}
      \cup
    {[password |-> <<97, 108, 112, 104, 97>>, dec_password |-> dpw,
      config |-> [chunk_size |-> W(MIN_CHUNK_SIZE, 4), compress |-> FALSE],
      plaintext |-> Plain(n), metadata |-> None, cost |-> Cost,
      rng |-> [salt |-> <<99, 50, 70, 115, 100, 65>>,
               base_nonce |-> Seq1([k \in 1..NONCE_LEN |-> 16 * k + k])],
      tamper |-> NoTamper] :
        dpw \in Passwords, n \in PlainLens(MIN_CHUNK_SIZE) \ {0, 1}}
      \cup
    {[password |-> pw, dec_password |-> pw,
      config |-> [chunk_size |-> W(cs, 4), compress |-> FALSE],
      plaintext |-> Plain(n), metadata |-> None, cost |-> Cost,
      rng |-> [salt |-> <<99, 50, 70, 115, 100, 66>>, base_nonce |-> Rep(42, NONCE_LEN)],
      tamper |-> NoTamper] :
        pw \in Passwords,
        cs \in {MIN_CHUNK_SIZE - 1, MIN_CHUNK_SIZE + 1, MAX_CHUNK_SIZE, MAX_CHUNK_SIZE + 1},
        n \in {0, 1, MIN_CHUNK_SIZE, MIN_CHUNK_SIZE + 1, MIN_CHUNK_SIZE + 2}}

EncIdle == [state |-> "Start", i |-> 0, header |-> NoHeader, key |-> <<>>,
            recs |-> <<>>, err |-> "none"]
DecIdle == [state |-> "Idle", i |-> 0, pos |-> 0, header |-> NoHeader, key |-> <<>>,
            log |-> <<>>, err |-> "none", at |-> "none"]

InitStream == /\ scen \in Scenarios
              /\ enc = EncIdle /\ sink = <<>>
              /\ source = <<>> /\ dec = DecIdle /\ out = <<>>
              /\ call = <<>> /\ ret = <<>> /\ VolumeIdle

PureUnchanged == UNCHANGED <<call, ret>> /\ VolumeUnchanged

\* ---- encoder (spec.md 4.2) ----
\* steps 1 to 6: validate the configuration, draw salt and base nonce, size
\* the input, write the header, derive the key
EncStart ==
    /\ enc.state = "Start"
    /\ LET cfg == StreamConfig_new(scen.config.chunk_size)
       IN  IF ~cfg.ok
           THEN /\ enc' = [enc EXCEPT !.state = "Failed", !.err = cfg.err]
                /\ UNCHANGED sink
           ELSE \E overflow_checks \in BOOLEAN :
                  LET salt == scen.rng.salt
                      base_nonce == scen.rng.base_nonce
                      original_size == W(Len(scen.plaintext), 4)
                      chunk_size == WCast(scen.config.chunk_size, 2)
                      total == calculate_chunks(original_size, chunk_size, overflow_checks)
                      header == [salt |-> salt, base_nonce |-> base_nonce,
                                 chunk_size |-> chunk_size,
                                 total_chunks |-> total.val,
                                 original_size |-> original_size,
                                 metadata |-> scen.metadata]
                  IN  IF total.panic
                      THEN /\ enc' = [enc EXCEPT !.state = "Failed", !.err = "panic"]
                           /\ UNCHANGED sink
                      ELSE /\ sink' = StreamHeader_write_to(header)
                           /\ enc' = [enc EXCEPT
                                        !.state = "Chunks", !.header = header,
                                        !.key = derive_key(scen.password, salt, scen.cost)]
    /\ UNCHANGED <<scen, source, dec, out>> /\ PureUnchanged

\* step 7, once: read up to chunk_size bytes, encrypt them under the nonce
\* of chunk i, write the record
EncChunk ==
    /\ enc.state = "Chunks"
    /\ WLess(W(enc.i, 4), enc.header.total_chunks)
    /\ LET cs == WInt(enc.header.chunk_size)
           from == enc.i * cs
           to == IF from + cs <= Len(scen.plaintext) THEN from + cs
                 ELSE Len(scen.plaintext)
           chunk == Slice(scen.plaintext, from, to)
           nonce == derive_chunk_nonce(enc.header.base_nonce, W(enc.i, 4))
           payload == encrypt(enc.key, nonce, chunk)
       IN  /\ sink' = sink \o to_le_bytes(W(enc.i, 4))
                           \o to_le_bytes(W(Len(payload), 2)) \o payload
           /\ enc' = [enc EXCEPT
                        !.i = enc.i + 1,
                        !.recs = Append(enc.recs, [start |-> Len(sink),
                                                   plain |-> Len(chunk),
                                                   nonce |-> nonce])]
    /\ UNCHANGED <<scen, source, dec, out>> /\ PureUnchanged

\* step 8: after total_chunks records, close the sink
EncClose ==
    /\ enc.state = "Chunks"
    /\ ~WLess(W(enc.i, 4), enc.header.total_chunks)
    /\ enc' = [enc EXCEPT !.state = "Closed"]
    /\ UNCHANGED <<scen, sink, source, dec, out>> /\ PureUnchanged

\* ---- the stream on its way to the decoder ----
\* where record k (from 0) of the written stream ends
RecEnd(k) == IF k + 1 < Len(enc.recs) THEN enc.recs[k + 2].start ELSE Len(sink)
HeaderLen == IF Len(enc.recs) > 0 THEN enc.recs[1].start ELSE Len(sink)

\* the stream with records a < b exchanged
Swapped(a, b) ==
    Slice(sink, 0, enc.recs[a + 1].start)
      \o Slice(sink, enc.recs[b + 1].start, RecEnd(b))
      \o Slice(sink, RecEnd(a), enc.recs[b + 1].start)
      \o Slice(sink, enc.recs[a + 1].start, RecEnd(a))
      \o Slice(sink, RecEnd(b), Len(sink))

\* the lengths a long stream is cut to: around the header's end and every
\* record's fields.  A short stream is cut to every length.
CutPoints ==
    IF Len(sink) <= MaxCutAll THEN 0..(Len(sink) - 1)
    ELSE {n \in {HeaderLen - 1, HeaderLen, Len(sink) - TAG_LEN - 1, Len(sink) - TAG_LEN,
                 Len(sink) - 1}
               \cup UNION {{enc.recs[k].start + d : d \in {1, 8, 9, 12, 13}} :
                              k \in 1..Len(enc.recs)}
               \cup {enc.recs[k].start : k \in 1..Len(enc.recs)} :
             0 <= n /\ n < Len(sink)}

\* single bit flips are tried on the streams of at most one plaintext byte
\* written with the smallest chunk size
Tampers ==
    {NoTamper}
      \cup (IF scen.dec_password = scen.password /\ scen.config.chunk_size = W(MIN_CHUNK_SIZE, 4)
            THEN {[kind |-> "truncate", a |-> n, b |-> 0] : n \in CutPoints}
                   \cup {[kind |-> "append", a |-> n, b |-> 0] : n \in {1, 12}}
                   \cup {[kind |-> "swap", a |-> a, b |-> b] :
                            a \in 0..(Len(enc.recs) - 1), b \in 0..(Len(enc.recs) - 1)}
                   \cup (IF Len(scen.plaintext) <= 1
                         THEN {[kind |-> "flip", a |-> pos, b |-> bit] :
                                  pos \in 0..(Len(sink) - 1), bit \in 0..7}
                         ELSE {})
            ELSE {})

Tampered(t) ==
    IF t.kind = "flip" THEN [sink EXCEPT ![t.a + 1] = Xor(@, 2 ^ t.b)]
    ELSE IF t.kind = "swap" THEN Swapped(t.a, t.b)
    ELSE IF t.kind = "truncate" THEN Slice(sink, 0, t.a)
    ELSE IF t.kind = "append" THEN sink \o Rep(0, t.a)
    ELSE sink

\* the closed stream reaches the decoder, intact or tampered with
Deliver ==
    /\ enc.state = "Closed" /\ dec.state = "Idle"
    /\ \E t \in Tampers :
          /\ t.kind = "swap" => t.a < t.b
          /\ scen' = [scen EXCEPT !.tamper = t]
          /\ source' = Tampered(t)
    /\ dec' = [dec EXCEPT !.state = "ExpectHeader"]
    /\ UNCHANGED <<enc, sink, out>> /\ PureUnchanged

\* ---- decoder (spec.md 4.3) ----
DecFail(e, where) == [dec EXCEPT !.state = "Failed", !.err = e, !.at = where]

\* whether a record's stored index is the one the decoder expects
IndexAccepted_any(observed_index, i) == TRUE
IndexAccepted(observed_index, i) == observed_index = W(i, 4)

\* whether the source is exhausted once pos bytes are read
SourceExhausted_any(pos, src) == TRUE
SourceExhausted(pos, src) == pos = Len(src)

\* steps 1 to 9: read the header, derive the key
DecHeader ==
    /\ dec.state = "ExpectHeader"
    /\ LET res == StreamHeader_read_from(source)
       IN  IF ~res.ok THEN dec' = DecFail(res.err, "header")
           ELSE dec' = [dec EXCEPT
                          !.state = "ExpectChunk", !.header = res.val, !.pos = res.used,
                          !.key = derive_key(scen.dec_password, res.val.salt, scen.cost)]
    /\ UNCHANGED <<scen, enc, sink, source, out>> /\ PureUnchanged

\* whether the record at the decoder's position announces more payload than
\* a chunk and its tag
Oversized ==
    /\ Len(source) - dec.pos >= 12
    /\ WLess(WAddC(dec.header.chunk_size, W(TAG_LEN, 2)),
             WCast(from_le_bytes(Slice(source, dec.pos + 8, dec.pos + 12)), 3))

\* step 10, once: read record i, check its index and size, decrypt it
\* under the nonce of chunk i, deliver the plaintext.  Whether a data_size
\* above chunk_size + TAG_LEN is refused before the payload is read is the
\* implementation's choice (strict_size).
DecChunk ==
    /\ dec.state = "ExpectChunk"
    /\ WLess(W(dec.i, 4), dec.header.total_chunks)
    /\ \E strict_size \in (IF Oversized THEN BOOLEAN ELSE {FALSE}) :
       LET p == dec.pos
           left == Len(source) - p
       IN  IF left < 8 THEN dec' = DecFail("Io", "index") /\ UNCHANGED out
           ELSE IF ~IndexAccepted(from_le_bytes(Slice(source, p, p + 8)), dec.i)
                THEN dec' = DecFail("InvalidFormat", "index") /\ UNCHANGED out
           ELSE IF left < 12 THEN dec' = DecFail("Io", "size") /\ UNCHANGED out
           ELSE LET data_size == from_le_bytes(Slice(source, p + 8, p + 12))
                IN  IF strict_size
                    THEN dec' = DecFail("InvalidFormat", "size") /\ UNCHANGED out
                    ELSE IF WLess(W(left - 12, 2), data_size)
                         THEN dec' = DecFail("Io", "payload") /\ UNCHANGED out
                    ELSE LET n == WInt(data_size)
                             nonce == derive_chunk_nonce(dec.header.base_nonce, W(dec.i, 4))
                             res == decrypt(dec.key, nonce, Slice(source, p + 12, p + 12 + n))
                         IN  IF ~res.ok
                             THEN dec' = DecFail("Cryptography", "aead") /\ UNCHANGED out
                             ELSE /\ out' = out \o res.val
                                  /\ dec' = [dec EXCEPT
                                               !.i = dec.i + 1, !.pos = p + 12 + n,
                                               !.log = Append(dec.log,
                                                   [index |-> from_le_bytes(Slice(source, p, p + 8)),
                                                    start |-> p, size |-> n,
                                                    nonce |-> nonce, plain |-> Len(res.val)])]
    /\ UNCHANGED <<scen, enc, sink, source>> /\ PureUnchanged

\* step 11: after the last record the source must be exhausted
DecFinish ==
    /\ dec.state = "ExpectChunk"
    /\ ~WLess(W(dec.i, 4), dec.header.total_chunks)
    /\ dec' = IF SourceExhausted(dec.pos, source) THEN [dec EXCEPT !.state = "Done"]
              ELSE DecFail("InvalidFormat", "trailing")
    /\ UNCHANGED <<scen, enc, sink, source, out>> /\ PureUnchanged

NextStream == EncStart \/ EncChunk \/ EncClose \/ Deliver \/ DecHeader \/ DecChunk \/ DecFinish
SpecStream == InitStream /\ [][NextStream]_vars

(***************************************************************************)
(* Properties of the streaming protocols                                   *)
(***************************************************************************)
SamePassword == scen.dec_password = scen.password
ChunkSizeInt == WInt(scen.config.chunk_size)
ChunkSizeInBounds == MIN_CHUNK_SIZE <= ChunkSizeInt /\ ChunkSizeInt <= MAX_CHUNK_SIZE
DecTerminal == dec.state \in {"Done", "Failed"}

\* the number n with (n - 1) * c < len <= n * c
CeilDiv(len, c) == CHOOSE n \in 0..len : n * c >= len /\ (n = 0 \/ (n - 1) * c < len)

\* C1: decoding the encoder's own stream with the same password and cost
\* parameters never fails, and once the decoder is Done the emitted chunks
\* concatenate to the plaintext; an encoder given a chunk size inside the
\* bounds does not fail either.
C1_StreamRoundTrip ==
    (SamePassword /\ scen.tamper.kind = "none")
      => /\ ChunkSizeInBounds => enc.state # "Failed"
         /\ dec.state # "Failed"
         /\ out = Slice(scen.plaintext, 0, Len(out))
         /\ Len(out) <= Len(scen.plaintext)
         /\ dec.state = "Done" => out = scen.plaintext

C1_Witness ==
    /\ SamePassword /\ scen.tamper.kind = "none" /\ dec.state = "Done"
    /\ Len(scen.plaintext) = MIN_CHUNK_SIZE + 1 /\ ChunkSizeInt = MIN_CHUNK_SIZE
    /\ Len(dec.log) = 2 /\ dec.log[1].plain = MIN_CHUNK_SIZE /\ dec.log[2].plain = 1
    /\ out = scen.plaintext

\* C3: every record the decoder accepted carried the index of its position;
\* on a stream with records a < b exchanged the decoder is never Done, has
\* accepted no record from position a on, finds index b stored at position a,
\* and fails there with the index-mismatch format error having emitted the
\* plaintext of the a records before it only.
C3_OrderEnforcement ==
    /\ \A k \in 1..Len(dec.log) : dec.log[k].index = W(k - 1, 4)
    /\ scen.tamper.kind = "swap"
         => /\ dec.state # "Done"
            /\ dec.i <= scen.tamper.a
            /\ out = Slice(scen.plaintext, 0, dec.i * ChunkSizeInt)
            /\ (dec.state = "ExpectChunk" /\ dec.i = scen.tamper.a)
                 => from_le_bytes(Slice(source, dec.pos, dec.pos + 8)) = W(scen.tamper.b, 4)
            /\ dec.state = "Failed"
                 => /\ dec.err = "InvalidFormat" /\ dec.at = "index"
                    /\ dec.i = scen.tamper.a

C3_Witness ==
    /\ scen.tamper = [kind |-> "swap", a |-> 1, b |-> 2]
    /\ dec.state = "Failed" /\ dec.err = "InvalidFormat" /\ dec.at = "index"
    /\ dec.i = 1 /\ Len(out) = MIN_CHUNK_SIZE

\* the bytes of record k (from 1) in the sink
StoredIndex(k) == from_le_bytes(Slice(sink, enc.recs[k].start, enc.recs[k].start + 8))
StoredSize(k) == WInt(from_le_bytes(Slice(sink, enc.recs[k].start + 8, enc.recs[k].start + 12)))

\* C4: the sink begins with the header; the records follow it without gaps in
\* the order 0, 1, ..., each holding chunk_size plaintext bytes except that
\* the last may hold fewer (never none); an encoder that has finished has
\* written ceil(original_size / chunk_size) records, as many as the header
\* announces, and nothing after the last.
C4_EncoderOrderAndCount ==
    enc.state \in {"Chunks", "Closed"}
      => LET n == Len(enc.recs)
             hdr == StreamHeader_write_to(enc.header)
         IN  /\ Slice(sink, 0, Len(hdr)) = hdr
             /\ HeaderLen = Len(hdr)
             /\ \A k \in 1..n :
                   /\ StoredIndex(k) = W(k - 1, 4)
                   /\ StoredSize(k) = enc.recs[k].plain + TAG_LEN
                   /\ enc.recs[k].start + 12 + StoredSize(k) = RecEnd(k - 1)
                   /\ enc.recs[k].plain >= 1 /\ enc.recs[k].plain <= ChunkSizeInt
                   /\ k < n => enc.recs[k].plain = ChunkSizeInt
             /\ enc.state = "Closed"
                  => /\ n = CeilDiv(Len(scen.plaintext), ChunkSizeInt)
                     /\ enc.header.total_chunks = W(n, 4)
                     /\ enc.header.original_size = W(Len(scen.plaintext), 4)
                     /\ Len(scen.plaintext) = 0 => Len(sink) = Len(hdr)

C4_Witness ==
    /\ enc.state = "Closed" /\ Len(enc.recs) = MaxChunks + 1
    /\ enc.recs[MaxChunks + 1].plain = 1
    /\ StoredIndex(MaxChunks + 1) = W(MaxChunks, 4)

\* whether the two passwords of the run lead to different keys
KeysDiffer ==
    /\ enc.state = "Closed"
    /\ derive_key(scen.password, enc.header.salt, scen.cost)
         # derive_key(scen.dec_password, enc.header.salt, scen.cost)

\* what C5 says of a run decoded with a password of a different key
WrongPasswordRejected ==
    /\ dec.state # "Done"
    /\ out = <<>>
    /\ dec.state = "Failed"
         => dec.err = "Cryptography" /\ dec.at = "aead" /\ dec.i = 0

\* C5 as stated: for every plaintext, decoding with a password whose key
\* differs fails with a Cryptography error on chunk 0, delivers nothing and
\* never reaches Done.
C5_WrongPasswordAnyPlaintext == KeysDiffer => WrongPasswordRejected

\* C5 amended: the same for every non-empty plaintext.
C5_WrongPassword == (KeysDiffer /\ Len(scen.plaintext) > 0) => WrongPasswordRejected

C5_Witness ==
    /\ KeysDiffer /\ Len(scen.plaintext) = MIN_CHUNK_SIZE + 1
    /\ dec.state = "Failed" /\ dec.err = "Cryptography" /\ dec.at = "aead"
    /\ dec.i = 0 /\ out = <<>>

\* the reserved header-size field: the four bytes after magic and version
InReservedField(pos) == Len(MAGIC_BYTES_V2) + 1 <= pos /\ pos < Len(MAGIC_BYTES_V2) + 5

\* C6: on a stream with one bit flipped outside the reserved header-size
\* field the decoder is never Done, and its failure is an InvalidFormat or a
\* Cryptography error.
C6_TamperDetection ==
    (scen.tamper.kind = "flip" /\ ~InReservedField(scen.tamper.a))
      => /\ dec.state # "Done"
         /\ dec.state = "Failed" => dec.err \in {"InvalidFormat", "Cryptography"}

\* the like for the fields read_from checks or the AEAD covers: a flipped bit
\* in magic, version or a record's payload of a one-byte plaintext is refused
\* with one of the two errors
C6_CheckedFields ==
    (/\ scen.tamper.kind = "flip"
     /\ \/ scen.tamper.a <= Len(MAGIC_BYTES_V2)
        \/ Len(enc.recs) > 0 /\ scen.tamper.a >= enc.recs[1].start + 12)
      => /\ dec.state # "Done"
         /\ dec.state = "Failed" => dec.err \in {"InvalidFormat", "Cryptography"}

\* every record a Done decoder read, checked again against the source
RecordVerified(k) ==
    LET r == dec.log[k]
    IN  /\ r.index = W(k - 1, 4)
        /\ from_le_bytes(Slice(source, r.start, r.start + 8)) = W(k - 1, 4)
        /\ r.nonce = derive_chunk_nonce(dec.header.base_nonce, W(k - 1, 4))
        /\ decrypt(dec.key, r.nonce, Slice(source, r.start + 12, r.start + 12 + r.size)).ok
        /\ r.start + 12 + r.size
             = (IF k < Len(dec.log) THEN dec.log[k + 1].start ELSE Len(source))

\* C7: a Done decoder has read the whole header, then exactly total_chunks
\* records, each with the index of its position and a payload that verifies
\* under the nonce of that position, and has exhausted the source; on a
\* stream cut after the header or with bytes appended the decoder is never
\* Done, and its failure is an Io, InvalidFormat or Cryptography error; no
\* decoder step is enabled in Failed (or in Done).
C7_DecoderCompletion ==
    /\ dec.state = "Done"
         => LET res == StreamHeader_read_from(source)
            IN  /\ res.ok /\ res.val = dec.header
                /\ W(Len(dec.log), 4) = dec.header.total_chunks
                /\ Len(dec.log) > 0 => dec.log[1].start = res.used
                /\ Len(dec.log) = 0 => res.used = Len(source)
                /\ \A k \in 1..Len(dec.log) : RecordVerified(k)
                /\ dec.pos = Len(source)
    /\ (\/ scen.tamper.kind = "truncate" /\ scen.tamper.a >= HeaderLen
        \/ scen.tamper.kind = "append")
         => /\ dec.state # "Done"
            /\ dec.state = "Failed" => dec.err \in {"Io", "InvalidFormat", "Cryptography"}
    /\ DecTerminal => ~ENABLED (DecHeader \/ DecChunk \/ DecFinish)

C7_Witness ==
    /\ scen.tamper.kind = "truncate" /\ scen.tamper.a = Len(sink) - 1
    /\ Len(scen.plaintext) = MIN_CHUNK_SIZE + 1
    /\ dec.state = "Failed" /\ dec.i = 1 /\ Len(dec.log) = 1

C7_WitnessAppend ==
    /\ scen.tamper.kind = "append" /\ dec.state = "Failed"
    /\ dec.err = "InvalidFormat" /\ dec.at = "trailing"

(***************************************************************************)
(* Further properties of the pure functions of streaming.rs                *)
(***************************************************************************)
\* byte k (from 0) of the little-endian encoding of the u64 i
LeByte(i, k) == (i[(k \div 2) + 1] \div (IF k % 2 = 0 THEN 1 ELSE 256)) % 256

\* bit b of byte a
BitOf(a, b) == (a \div (2 ^ b)) % 2

\* whether byte c is the exclusive or of bytes a and b, bit by bit
IsXor(c, a, b) == \A bit \in 0..7 : BitOf(c, bit) = (BitOf(a, bit) + BitOf(b, bit)) % 2

C17_ReadValidatesInvariants ==
    Called =>
        LET h == call.h
            in_bounds == /\ WLeq(W(MIN_CHUNK_SIZE, 2), h.chunk_size)
                         /\ WLeq(h.chunk_size, W(MAX_CHUNK_SIZE, 2))
            consistent == in_bounds /\ IsCeilDiv(h.total_chunks, h.original_size, h.chunk_size)
        IN  /\ ret[1].ok
              => /\ WLeq(W(MIN_CHUNK_SIZE, 2), ret[1].val.chunk_size)
                 /\ WLeq(ret[1].val.chunk_size, W(MAX_CHUNK_SIZE, 2))
                 /\ IsCeilDiv(ret[1].val.total_chunks, ret[1].val.original_size,
                              ret[1].val.chunk_size)
            /\ (FitsFormat(h) /\ ValidUtf8(h) /\ ~consistent)
              => (~ret[1].ok /\ ret[1].err = "InvalidFormat")

(***************************************************************************)
(* The volume header (src/src/volume/header.rs).  The header is serialized *)
(* by bincode's serialize/deserialize functions over the serde derives of  *)
(* VolumeHeader: fixed-width little-endian integers, arrays without a      *)
(* length prefix, a unit enum variant as its u32 variant index, trailing   *)
(* bytes ignored on deserialize.                                           *)
(***************************************************************************)
MAGIC == <<83, 69, 67, 86, 79, 76, 48, 49>>
VERSION == 1
HEADER_SIZE == 4096
SALT_LEN == 32
IV_LEN == 12
RESERVED_LEN == 256

\* enum CipherAlgorithm: its variants in declaration order, and the
\* discriminant each is declared with
CipherVariants == <<"Aes256Gcm">>
Discriminant(c) == IF c = "Aes256Gcm" THEN 1 ELSE 0
VariantIndex(c) == CHOOSE k \in 0..(Len(CipherVariants) - 1) : CipherVariants[k + 1] = c

NoVolume == [magic |-> <<>>, version |-> WZero(2), cipher |-> "", salt |-> <<>>,
             header_iv |-> <<>>, volume_size |-> WZero(4), sector_size |-> WZero(2),
             created_at |-> WZero(4), modified_at |-> WZero(4), reserved |-> <<>>]

\* SystemTime::now().duration_since(UNIX_EPOCH).expect(..).as_secs(): the
\* whole seconds of the clock, a panic for a clock before the epoch
NowSecs(c) == IF c < 0 THEN Panicked ELSE Returned(W(c \div 2, 4))

\* VolumeHeader::new with modified_at left at 0
VolumeHeader_new_unset(volume_size, sector_size, salt, header_iv, now) ==
    [magic |-> MAGIC, version |-> W(VERSION, 2), cipher |-> "Aes256Gcm", salt |-> salt,
     header_iv |-> header_iv, volume_size |-> volume_size, sector_size |-> sector_size,
     created_at |-> now, modified_at |-> WZero(4), reserved |-> Rep(0, RESERVED_LEN)]

\* VolumeHeader::new, given the seconds read from the clock
VolumeHeader_new(volume_size, sector_size, salt, header_iv, now) ==
    [magic |-> MAGIC, version |-> W(VERSION, 2), cipher |-> "Aes256Gcm", salt |-> salt,
     header_iv |-> header_iv, volume_size |-> volume_size, sector_size |-> sector_size,
     created_at |-> now, modified_at |-> now, reserved |-> Rep(0, RESERVED_LEN)]

\* touch that stamps both timestamps
touch_both(h, now) == [h EXCEPT !.modified_at = now, !.created_at = now]

\* VolumeHeader::touch, given the seconds read from the clock
touch(h, now) == [h EXCEPT !.modified_at = now]

\* bincode::serialize with the cipher written as its discriminant
bincode_serialize_discr(h) ==
    h.magic \o to_le_bytes(h.version) \o to_le_bytes(W(Discriminant(h.cipher), 2))
      \o h.salt \o h.header_iv \o to_le_bytes(h.volume_size) \o to_le_bytes(h.sector_size)
      \o to_le_bytes(h.created_at) \o to_le_bytes(h.modified_at) \o h.reserved

\* bincode::serialize(&VolumeHeader): the fields in declaration order
bincode_serialize(h) ==
    h.magic \o to_le_bytes(h.version) \o to_le_bytes(W(VariantIndex(h.cipher), 2))
      \o h.salt \o h.header_iv \o to_le_bytes(h.volume_size) \o to_le_bytes(h.sector_size)
      \o to_le_bytes(h.created_at) \o to_le_bytes(h.modified_at) \o h.reserved

\* the length of every serialized VolumeHeader
SerializedLen == 8 + 4 + 4 + SALT_LEN + IV_LEN + 8 + 4 + 8 + 8 + RESERVED_LEN

\* bincode::deserialize::<VolumeHeader>(bytes): a Serialization error when
\* the input ends early or the variant index names no variant
bincode_deserialize(bytes) ==
    IF Len(bytes) < 16 THEN Err("Serialization", <<>>)
    ELSE LET index == from_le_bytes(Slice(bytes, 12, 16))
         IN  IF ~WLess(index, W(Len(CipherVariants), 2)) THEN Err("Serialization", <<>>)
             ELSE IF Len(bytes) < SerializedLen THEN Err("Serialization", <<>>)
             ELSE Ok([magic |-> Slice(bytes, 0, 8),
                      version |-> from_le_bytes(Slice(bytes, 8, 12)),
                      cipher |-> CipherVariants[WInt(index) + 1],
                      salt |-> Slice(bytes, 16, 48),
                      header_iv |-> Slice(bytes, 48, 60),
                      volume_size |-> from_le_bytes(Slice(bytes, 60, 68)),
                      sector_size |-> from_le_bytes(Slice(bytes, 68, 72)),
                      created_at |-> from_le_bytes(Slice(bytes, 72, 80)),
                      modified_at |-> from_le_bytes(Slice(bytes, 80, 88)),
                      reserved |-> Slice(bytes, 88, 88 + RESERVED_LEN)])

SizeMismatch(actual) == Err("SizeMismatch", [expected |-> HEADER_SIZE, actual |-> actual])

\* VolumeHeader::to_bytes
VolumeHeader_to_bytes(h) ==
    LET serialized == bincode_serialize(h)
    IN  IF Len(serialized) > HEADER_SIZE THEN SizeMismatch(Len(serialized))
        ELSE Ok(serialized \o Rep(0, HEADER_SIZE - Len(serialized)))

\* from_bytes with the version checked before the magic
VolumeHeader_from_bytes_version_first(bytes) ==
    IF Len(bytes) # HEADER_SIZE THEN SizeMismatch(Len(bytes))
    ELSE LET header == bincode_deserialize(bytes)
         IN  IF ~header.ok THEN header
             ELSE IF header.val.version # W(VERSION, 2)
                  THEN Err("UnsupportedVersion", header.val.version)
             ELSE IF header.val.magic # MAGIC THEN Err("InvalidMagic", <<>>)
             ELSE Ok(header.val)

\* VolumeHeader::from_bytes
VolumeHeader_from_bytes(bytes) ==
    IF Len(bytes) # HEADER_SIZE THEN SizeMismatch(Len(bytes))
    ELSE LET header == bincode_deserialize(bytes)
         IN  IF ~header.ok THEN header
             ELSE IF header.val.magic # MAGIC THEN Err("InvalidMagic", <<>>)
             ELSE IF header.val.version # W(VERSION, 2)
                  THEN Err("UnsupportedVersion", header.val.version)
             ELSE Ok(header.val)

\* VolumeHeader::write_to: the writer's content afterwards, or the error
VolumeHeader_write_to(h, writer) ==
    LET bytes == VolumeHeader_to_bytes(h)
    IN  IF ~bytes.ok THEN bytes ELSE Ok(writer \o bytes.val)

\* VolumeHeader::read_from
VolumeHeader_read_from(reader) ==
    IF Len(reader) < HEADER_SIZE THEN Err("Io", <<>>)
    ELSE VolumeHeader_from_bytes(Slice(reader, 0, HEADER_SIZE))

\* ---- the life of one VolumeHeader: new, touch, serialization ----
\* the clock runs from half a second before the epoch to MaxClock half
\* seconds after it; a header is touched at most MaxTouches times
VolumeSizes == {WZero(4), W(1024 * 1024 * 1024, 4), WMax(4)}
SectorSizes == {W(512, 2), WMax(2)}
VolumeSalts == {Rep(1, SALT_LEN), Seq1([k \in 1..SALT_LEN |-> 255 - k])}
VolumeIvs == {Rep(2, IV_LEN)}
ClockValues == (0 - 1)..MaxClock

NoVol == [state |-> "None", h |-> NoVolume, last |-> 0, ordered |-> TRUE, touches |-> 0]

InitVolume ==
    /\ call \in {[fn |-> "VolumeHeader::new", volume_size |-> vs, sector_size |-> ss,
                  salt |-> sa, header_iv |-> iv] :
                    vs \in VolumeSizes, ss \in SectorSizes, sa \in VolumeSalts,
                    iv \in VolumeIvs}
    /\ clock \in ClockValues /\ vol = NoVol
    /\ ret = <<>> /\ sink = <<>> /\ source = <<>>
    /\ scen = <<>> /\ enc = <<>> /\ dec = <<>> /\ out = <<>>

VolFrame == UNCHANGED <<call, scen, enc, dec, out>>

\* VolumeHeader::new(volume_size, sector_size, salt, header_iv)
VolNew ==
    /\ vol.state = "None"
    /\ LET now == NowSecs(clock)
       IN  IF now.panic THEN vol' = [vol EXCEPT !.state = "Panicked"]
           ELSE vol' = [vol EXCEPT
                          !.state = "Live", !.last = clock,
                          !.h = VolumeHeader_new(call.volume_size, call.sector_size,
                                                 call.salt, call.header_iv, now.val)]
    /\ UNCHANGED <<clock, ret, sink, source>> /\ VolFrame

\* the system clock moves, forwards or (when it is set) backwards
ClockMoves ==
    /\ vol.state \in {"None", "Live"} /\ ret = <<>>
    /\ \E c \in ClockValues : c # clock /\ clock' = c
    /\ UNCHANGED <<vol, ret, sink, source>> /\ VolFrame

\* header.touch()
VolTouch ==
    /\ vol.state = "Live" /\ ret = <<>> /\ vol.touches < MaxTouches
    /\ LET now == NowSecs(clock)
       IN  IF now.panic THEN vol' = [vol EXCEPT !.state = "Panicked"]
           ELSE vol' = [vol EXCEPT
                          !.h = touch(vol.h, now.val), !.last = clock,
                          !.ordered = vol.ordered /\ vol.last <= clock,
                          !.touches = vol.touches + 1]
    /\ UNCHANGED <<clock, ret, sink, source>> /\ VolFrame

\* header.to_bytes()
VolToBytes ==
    /\ vol.state = "Live" /\ ret = <<>>
    /\ LET res == VolumeHeader_to_bytes(vol.h)
       IN  /\ ret' = <<[fn |-> "to_bytes", h |-> vol.h, res |-> res]>>
           /\ sink' = IF res.ok THEN res.val ELSE <<>>
    /\ UNCHANGED <<vol, clock, source>> /\ VolFrame

\* VolumeHeader::from_bytes(&bytes) on what to_bytes returned
VolFromBytes ==
    /\ ret # <<>> /\ ret[1].fn = "to_bytes" /\ ret[1].res.ok
    /\ ret' = <<[fn |-> "from_bytes", h |-> ret[1].h, res |-> VolumeHeader_from_bytes(sink)]>>
    /\ UNCHANGED <<vol, clock, sink, source>> /\ VolFrame

\* header.write_to(&mut buffer) on an empty buffer
VolWriteTo ==
    /\ vol.state = "Live" /\ ret = <<>>
    /\ LET res == VolumeHeader_write_to(vol.h, source)
       IN  /\ ret' = <<[fn |-> "write_to", h |-> vol.h,
                        res |-> IF res.ok THEN Ok(<<>>) ELSE res]>>
           /\ source' = IF res.ok THEN res.val ELSE source
    /\ UNCHANGED <<vol, clock, sink>> /\ VolFrame

\* VolumeHeader::read_from(&mut cursor) over the buffer written
VolReadFrom ==
    /\ ret # <<>> /\ ret[1].fn = "write_to" /\ ret[1].res.ok
    /\ ret' = <<[fn |-> "read_from", h |-> ret[1].h, res |-> VolumeHeader_read_from(source)]>>
    /\ UNCHANGED <<vol, clock, sink, source>> /\ VolFrame

NextVolume == VolNew \/ ClockMoves \/ VolTouch \/ VolToBytes \/ VolFromBytes
                \/ VolWriteTo \/ VolReadFrom
SpecVolume == InitVolume /\ [][NextVolume]_vars

(***************************************************************************)
(* Properties of the volume header                                         *)
(***************************************************************************)
\* equality of two headers in every field but reserved
SameNonReserved(a, b) ==
    /\ a.magic = b.magic /\ a.version = b.version /\ a.cipher = b.cipher
    /\ a.salt = b.salt /\ a.header_iv = b.header_iv
    /\ a.volume_size = b.volume_size /\ a.sector_size = b.sector_size
    /\ a.created_at = b.created_at /\ a.modified_at = b.modified_at

\* C11: for a header built by new and touched any number of times, to_bytes
\* succeeds with exactly 4096 bytes, write_to succeeds and writes 4096 bytes,
\* and from_bytes on the bytes (read_from on what was written) succeeds with
\* a header equal to the original in every non-reserved field.
C11_VolumeRoundTrip ==
    ret # <<>>
      => LET r == ret[1]
         IN  /\ r.res.ok
             /\ r.fn = "to_bytes" => Len(r.res.val) = HEADER_SIZE
             /\ r.fn = "write_to" => Len(source) = HEADER_SIZE
             /\ r.fn \in {"from_bytes", "read_from"}
                  => /\ SameNonReserved(r.res.val, r.h)
                     /\ r.res.val.magic = MAGIC /\ r.res.val.cipher = "Aes256Gcm"

C11_Witness ==
    /\ ret # <<>> /\ ret[1].fn = "read_from" /\ ret[1].res.ok
    /\ vol.touches = MaxTouches /\ ret[1].h = vol.h
    /\ WLess(vol.h.created_at, vol.h.modified_at)
    /\ SameNonReserved(ret[1].res.val, vol.h)

\* C14: a touch sets modified_at to the clock's current second and changes no
\* other field; created_at never changes once new has set it; and when the
\* clock has advanced by a second or more since it was last read, the touch
\* makes modified_at strictly greater.
C14_TouchFrame ==
    [][/\ vol.state = "Live"
            => [vol'.h EXCEPT !.modified_at = WZero(4)] = [vol.h EXCEPT !.modified_at = WZero(4)]
       /\ (vol.state = "Live" /\ vol'.touches = vol.touches + 1)
            => /\ vol'.h.modified_at = W(clock \div 2, 4)
               /\ clock >= vol.last + 2 => WLess(vol.h.modified_at, vol'.h.modified_at)]_vars

C14_Witness ==
    /\ vol.state = "Live" /\ vol.touches = 1 /\ clock = vol.last
    /\ vol.h.modified_at = W(clock \div 2, 4)
    /\ WLess(vol.h.created_at, vol.h.modified_at)

\* the serialized header the last to_bytes returned
Bytes == ret[1].res.val

\* C15: to_bytes lays the header out as magic 0..8, version (u32 LE) 8..12,
\* cipher as one byte of value 1 at 12, salt 13..45, header_iv 45..57,
\* volume_size (u64 LE) 57..65, sector_size (u32 LE) 65..69, created_at
\* (u64 LE) 69..77, modified_at (u64 LE) 77..85, 256 zero bytes 85..341 and
\* zero padding up to 4096.
C15_VolumeLayout ==
    (ret # <<>> /\ ret[1].fn = "to_bytes")
      => LET h == ret[1].h
         IN  /\ ret[1].res.ok /\ Len(Bytes) = 4096
             /\ Slice(Bytes, 0, 8) = <<83, 69, 67, 86, 79, 76, 48, 49>>
             /\ Slice(Bytes, 8, 12) = to_le_bytes(h.version)
             /\ Bytes[13] = 1
             /\ Slice(Bytes, 13, 45) = h.salt
             /\ Slice(Bytes, 45, 57) = h.header_iv
             /\ Slice(Bytes, 57, 65) = to_le_bytes(h.volume_size)
             /\ Slice(Bytes, 65, 69) = to_le_bytes(h.sector_size)
             /\ Slice(Bytes, 69, 77) = to_le_bytes(h.created_at)
             /\ Slice(Bytes, 77, 85) = to_le_bytes(h.modified_at)
             /\ Slice(Bytes, 85, 4096) = Rep(0, 4096 - 85)

\* the layout to_bytes does produce: the cipher is the u32 variant index 0 at
\* 12..16 and every later field lies three bytes further on
VolumeLayoutWritten ==
    (ret # <<>> /\ ret[1].fn = "to_bytes")
      => LET h == ret[1].h
         IN  /\ ret[1].res.ok /\ Len(Bytes) = 4096
             /\ Slice(Bytes, 0, 8) = <<83, 69, 67, 86, 79, 76, 48, 49>>
             /\ Slice(Bytes, 8, 12) = <<1, 0, 0, 0>>
             /\ Slice(Bytes, 12, 16) = <<0, 0, 0, 0>>
             /\ Slice(Bytes, 16, 48) = h.salt
             /\ Slice(Bytes, 48, 60) = h.header_iv
             /\ Slice(Bytes, 60, 68) = to_le_bytes(h.volume_size)
             /\ Slice(Bytes, 68, 72) = to_le_bytes(h.sector_size)
             /\ Slice(Bytes, 72, 80) = to_le_bytes(h.created_at)
             /\ Slice(Bytes, 80, 88) = to_le_bytes(h.modified_at)
             /\ Slice(Bytes, 88, 4096) = Rep(0, 4096 - 88)

\* C18: while the clock reads behind a header were non-decreasing,
\* created_at <= modified_at; a header not yet touched has both timestamps
\* equal to the second new read and a reserved area of 256 zero bytes.
C18_TimestampOrder ==
    vol.state = "Live"
      => /\ vol.ordered => WLeq(vol.h.created_at, vol.h.modified_at)
         /\ vol.touches = 0
              => /\ vol.h.created_at = vol.h.modified_at
                 /\ vol.h.created_at = W(vol.last \div 2, 4)
                 /\ vol.h.reserved = Rep(0, 256)

C18_Witness ==
    /\ vol.state = "Live" /\ vol.ordered /\ vol.touches = MaxTouches
    /\ WLess(vol.h.created_at, vol.h.modified_at)

\* ---- VolumeHeader::from_bytes on arbitrary buffers ----
\* "SECVOL01", "INVALID!", zeros, and "SECVOL01" with one byte changed
VolumeMagics ==
    {MAGIC, <<73, 78, 86, 65, 76, 73, 68, 33>>, Rep(0, 8)}
      \cup {[MAGIC EXCEPT ![k] = Xor(@, 32)] : k \in 1..8}
\* the version field: 0, 1, 2, 256, 1 + 2^24, u32::MAX
VersionFields == {<<0, 0, 0, 0>>, <<1, 0, 0, 0>>, <<2, 0, 0, 0>>, <<0, 1, 0, 0>>,
                  <<1, 0, 0, 1>>, <<255, 255, 255, 255>>}
\* the four bytes after the version: 0, 1, 2, 256, 2^24, u32::MAX
CipherFields == {<<0, 0, 0, 0>>, <<1, 0, 0, 0>>, <<2, 0, 0, 0>>, <<0, 1, 0, 0>>,
                 <<0, 0, 0, 1>>, <<255, 255, 255, 255>>}
BufferLens == {0, 8, SerializedLen, HEADER_SIZE - 1, HEADER_SIZE + 1, 2 * HEADER_SIZE}

\* a buffer of len bytes: magic, version, cipher, then the fill byte
Buffer(magic, version, cipher, fill, len) ==
    LET head == magic \o version \o cipher
    IN  IF len <= Len(head) THEN Slice(head, 0, len)
        ELSE head \o Rep(fill, len - Len(head))

InitVolumeBytes ==
    /\ call \in {[fn |-> "VolumeHeader::from_bytes",
                  bytes |-> Buffer(m, v, c, fill, HEADER_SIZE)] :
                    m \in VolumeMagics, v \in VersionFields, c \in CipherFields,
                    fill \in {0, 255}}
                  \cup
                {[fn |-> "VolumeHeader::from_bytes",
                  bytes |-> Buffer(m, <<1, 0, 0, 0>>, <<0, 0, 0, 0>>, 0, len)] :
                    m \in {MAGIC, Rep(0, 8)}, len \in BufferLens}
    /\ ret = <<>> /\ sink = <<>> /\ StreamIdle

CallVolumeFromBytes ==
    /\ call.fn = "VolumeHeader::from_bytes" /\ ret = <<>>
    /\ ret' = <<VolumeHeader_from_bytes(call.bytes)>>
    /\ UNCHANGED <<call, sink>> /\ StreamUnchanged

SpecVolumeBytes == InitVolumeBytes /\ [][CallVolumeFromBytes]_vars

\* the fields of the buffer passed to from_bytes
BufMagic == Slice(call.bytes, 0, 8)
BufVersion == from_le_bytes(Slice(call.bytes, 8, 12))
BufCipher == from_le_bytes(Slice(call.bytes, 12, 16))

\* C12 as stated: a 4096-byte buffer whose first 8 bytes are not the magic
\* gets InvalidMagic whatever else it holds; a buffer of another length gets
\* SizeMismatch.
C12_MagicGatingAny ==
    Called
      => /\ Len(call.bytes) # HEADER_SIZE => (~ret[1].ok /\ ret[1].err = "SizeMismatch")
         /\ (Len(call.bytes) = HEADER_SIZE /\ BufMagic # MAGIC)
              => (~ret[1].ok /\ ret[1].err = "InvalidMagic")

\* C12 amended: a 4096-byte buffer whose first 8 bytes are not the magic gets
\* InvalidMagic whatever its version and later bytes hold, provided its
\* cipher field decodes (variant index 0); with any other cipher field it is
\* refused with a Serialization error; a buffer of another length gets
\* SizeMismatch carrying the expected and the actual length.
C12_MagicGating ==
    Called
      => /\ Len(call.bytes) # HEADER_SIZE
              => /\ ~ret[1].ok /\ ret[1].err = "SizeMismatch"
                 /\ ret[1].val = [expected |-> 4096, actual |-> Len(call.bytes)]
         /\ (Len(call.bytes) = HEADER_SIZE /\ BufMagic # MAGIC)
              => /\ ~ret[1].ok
                 /\ BufCipher = WZero(2) => ret[1].err = "InvalidMagic"
                 /\ BufCipher # WZero(2) => ret[1].err = "Serialization"

\* the buffer of the source's test, and one with a bad version besides
C12_Witness ==
    /\ Called /\ Len(call.bytes) = HEADER_SIZE
    /\ BufMagic = <<73, 78, 86, 65, 76, 73, 68, 33>>
    /\ BufVersion = W(2, 2) /\ BufCipher = WZero(2)
    /\ ret[1].err = "InvalidMagic"

\* C13: with the right magic, from_bytes is Ok only for version 1 and the
\* cipher field holding Aes256Gcm's value 1; a version v other than 1 gives
\* UnsupportedVersion(v); a cipher field with another value is refused.
C13_VersionCipherGating ==
    (Called /\ Len(call.bytes) = HEADER_SIZE /\ BufMagic = MAGIC)
      => /\ ret[1].ok => (BufVersion = W(1, 2) /\ BufCipher = W(Discriminant("Aes256Gcm"), 2))
         /\ BufVersion # W(1, 2)
              => (~ret[1].ok /\ ret[1].err = "UnsupportedVersion" /\ ret[1].val = BufVersion)
         /\ BufCipher # W(Discriminant("Aes256Gcm"), 2) => ~ret[1].ok

\* what from_bytes does with the right magic: Ok exactly for version 1 and
\* the variant index 0; UnsupportedVersion(v) for another version when the
\* index is 0; a Serialization error for every other index
VolumeGatingRead ==
    (Called /\ Len(call.bytes) = HEADER_SIZE /\ BufMagic = MAGIC)
      => /\ ret[1].ok <=> (BufVersion = W(VERSION, 2) /\ BufCipher = WZero(2))
         /\ (BufCipher = WZero(2) /\ BufVersion # W(VERSION, 2))
              => (ret[1].err = "UnsupportedVersion" /\ ret[1].val = BufVersion)
         /\ BufCipher # WZero(2) => (~ret[1].ok /\ ret[1].err = "Serialization")

=============================================================================
